---- MODULE Spec2Model ----
(***************************************************************************)
(* The adaptive collocation loop of AcousticDuct_adaptive.py: seed grid,   *)
(* train, evaluate, estimate the residual error, promote the points with   *)
(* the largest residual into the next round's interior training set.       *)
(*                                                                         *)
(* Coordinates are exact fractions <<num, den>> in lowest terms.  A point  *)
(* is <<x, y>>, a row of X_int or top_pred_X is <<x, y, f>>.  X_int is the *)
(* bag of its rows: no operation of the script reads the row order of      *)
(* X_int (len counts rows, the trainer sums over them), while pred_X,      *)
(* f_err and top_pred_X keep their array order.  Python arrays are indexed *)
(* from 0, the sequences here from 1; rel_err, rel_est_err and numPts keep *)
(* the 0-based round index.                                                *)
(***************************************************************************)
EXTENDS Integers, Sequences, FiniteSets, Bags

VARIABLES numIter, numIntPtsX, numIntPtsY, N, i, pc, X_int, top_pred_X,
          pred_X, error_u, f_err, rel_err, rel_est_err, numPts,
          plate      \* the state of the plate-with-hole script's error report

vars == <<numIter, numIntPtsX, numIntPtsY, N, i, pc, X_int, top_pred_X,
          pred_X, error_u, f_err, rel_err, rel_est_err, numPts, plate>>

(***************************************************************************)
(* Bounds of the model.                                                    *)
(***************************************************************************)
\* largest configured number of adaptive rounds
MaxIter == 3
\* longest residual array handed to the selection step on its own
MaxLen == 4
\* largest small count per axis of the grids generated on their own
MaxGridPts == 6

\* seed grid counts (numIntPtsX, numIntPtsY) the loop is run with: the
\* smallest grid with a seed point
LoopGrids == {<<3, 3>>}
\* levels of the relative field error of a round
ErrLevels == {1}
\* residual fields of the loop: zero everywhere, or HotVals at one point
HotVals == {-1}
HotCounts == {0, 1}
\* residual values of the selection step on its own
SelResVals == {-2, 0, 1}
\* refinement percentages of the selection step on its own
SelPercents == {0, 25, 30, 50, 75, 100}

(***************************************************************************)
(* Exact arithmetic on coordinates.                                        *)
(***************************************************************************)
RECURSIVE GCD(_, _)
GCD(a, b) == IF b = 0 THEN a ELSE GCD(b, a % b)

Frac(n, d) == LET g == GCD(n, d) IN <<n \div g, d \div g>>

Range(s) == {s[j] : j \in DOMAIN s}

\* A float that is the ratio of two norms: <<kind, num, den>>
Finite(n, d) == <<"finite", Frac(n, d)[1], Frac(n, d)[2]>>
NaN == <<"nan", 0, 0>>
Infinity == <<"inf", 1, 0>>

\* domainCorners: the rectangle (0,2) x (0,1)
domainWidth == 2
domainHeight == 1

\* np.linspace(0, 1, num)[j], j = 0..num-1
linspace(num, j) == IF num = 1 THEN <<0, 1>> ELSE Frac(j, num - 1)

\* QuadrilateralGeom.getUnifIntPts(xPts, yPts, withEdges), flattened row by
\* row as the caller does: withEdges = <<bottom, right, top, left>>, an edge
\* whose flag is 0 loses its end of the linspace.
getUnifIntPts(xPts, yPts, withEdges) ==
    LET x0 == IF withEdges[4] = 0 THEN 1 ELSE 0
        x1 == IF withEdges[2] = 0 THEN xPts - 2 ELSE xPts - 1
        y0 == IF withEdges[1] = 0 THEN 1 ELSE 0
        y1 == IF withEdges[3] = 0 THEN yPts - 2 ELSE yPts - 1
        nx == IF x1 >= x0 THEN x1 - x0 + 1 ELSE 0
        ny == IF y1 >= y0 THEN y1 - y0 + 1 ELSE 0
        u(t) == linspace(xPts, x0 + ((t - 1) % nx))
        v(t) == linspace(yPts, y0 + ((t - 1) \div nx))
    IN  [t \in 1..(nx * ny) |->
            <<Frac(domainWidth * u(t)[1], u(t)[2]),
              Frac(domainHeight * v(t)[1], v(t)[2])>>]

\* the bag of the rows of an array
RowsToBag(rows) ==
    LET S == Range(rows)
    IN  IF Cardinality(S) = Len(rows)
        THEN SetToBag(S)
        ELSE [r \in S |-> Cardinality({j \in DOMAIN rows : rows[j] = r})]

\* np.zeros(n), 0-based
zeros(n) == [j \in 0..(n - 1) |-> 0]

\* X_int at line 91: the seed grid with the forcing column f_val = 0
SeedRows(nx, ny) ==
    LET pts == getUnifIntPts(nx, ny, <<0, 0, 0, 0>>)
    IN  [t \in DOMAIN pts |-> <<pts[t][1], pts[t][2], 0>>]

\* the plate-with-hole script is not run
NoPlate == [pc |-> "off"]

(***************************************************************************)
(* State after the set-up code (lines 36..102), for a configuration.       *)
(***************************************************************************)
Setup(grids, percents, iters) ==
    /\ numIter \in iters
    /\ \E g \in grids : numIntPtsX = g[1] /\ numIntPtsY = g[2]
    /\ N \in percents
    /\ i = 0
    /\ pc = "train"
    /\ X_int = RowsToBag(SeedRows(numIntPtsX, numIntPtsY))
    /\ top_pred_X = <<>>
    /\ pred_X = <<>>
    /\ error_u = 0
    /\ f_err = <<>>
    /\ rel_err = zeros(numIter)
    /\ rel_est_err = [r \in DOMAIN zeros(numIter) |-> Finite(0, 1)]
    /\ numPts = zeros(numIter)
    /\ plate = NoPlate

\* the refinement percentage of the script
Percent == 30

Init == Setup(LoopGrids, {Percent}, 1..MaxIter)

(***************************************************************************)
(* Training part of a round: merge the promoted rows, train.               *)
(***************************************************************************)
\* the promoted rows taken out of the set instead of added to it
MergeRemoves(X, top) == X (-) RowsToBag(top)

\* the promoted rows never reach the training set
MergeSkipped(X, top) == X

\* the merged set keeps one copy of every row
MergeDedup(X, top) == SetToBag(BagToSet(X) \cup Range(top))

Merge(X, top) == X (+) RowsToBag(top)

Train ==
    /\ pc = "train"
    /\ X_int' = Merge(X_int, top_pred_X)
    /\ pc' = "evaluate"
    /\ UNCHANGED <<numIter, numIntPtsX, numIntPtsY, N, i, top_pred_X, pred_X,
                   error_u, f_err, rel_err, rel_est_err, numPts, plate>>

(***************************************************************************)
(* Evaluation of the field on the dense grid with edges, then generation   *)
(* of the interior grid the residual is evaluated on.                      *)
(***************************************************************************)
\* the counts of the dense grid with edges (lines 123, 124) used again
numPredPtsXDense(nx) == 2 * nx
numPredPtsYDense(ny) == 2 * ny

numPredPtsX(nx) == 2 * nx - 1
numPredPtsY(ny) == 2 * ny - 1

Evaluate ==
    /\ pc = "evaluate"
    /\ error_u' \in ErrLevels
    /\ pred_X' = getUnifIntPts(numPredPtsX(numIntPtsX), numPredPtsY(numIntPtsY),
                               <<0, 0, 0, 0>>)
    /\ pc' = "estimate"
    /\ UNCHANGED <<numIter, numIntPtsX, numIntPtsY, N, i, X_int, top_pred_X,
                   f_err, rel_err, rel_est_err, numPts, plate>>

(***************************************************************************)
(* Residual on pred_X, the estimated relative error, the round's records.  *)
(***************************************************************************)
\* the residual fields model.predict may return on L points
PredictOutputs(L) ==
    {f \in [1..L -> HotVals \cup {0}] :
        Cardinality({j \in 1..L : f[j] # 0}) \in HotCounts}

RECURSIVE SumSq(_, _)
SumSq(a, n) == IF n = 0 THEN 0 ELSE a[n] * a[n] + SumSq(a, n - 1)

\* np.linalg.norm(a, 2), kept as its square
norm(a) == SumSq(a, Len(a))

\* IEEE division of two norms: x/0 is inf, 0/0 is nan
FloatDiv(a, b) ==
    IF b = 0 THEN (IF a = 0 THEN NaN ELSE Infinity) ELSE Finite(a, b)

Estimate ==
    /\ pc = "estimate"
    /\ \E f_pred \in PredictOutputs(Len(pred_X)) :
         LET f_val == [j \in 1..Len(pred_X) |-> 0]
             err == [j \in 1..Len(pred_X) |-> f_val[j] - f_pred[j]]
         IN  /\ f_err' = err
             /\ rel_est_err' = [rel_est_err EXCEPT ![i] = FloatDiv(norm(err), norm(f_val))]
    /\ rel_err' = [rel_err EXCEPT ![i] = error_u]
    /\ numPts' = [numPts EXCEPT ![i] = BagCardinality(X_int)]
    /\ pc' = "select"
    /\ UNCHANGED <<numIter, numIntPtsX, numIntPtsY, N, i, X_int, top_pred_X,
                   pred_X, error_u, plate>>

(***************************************************************************)
(* Selection of the rows promoted into the next round.                     *)
(***************************************************************************)
Abs(v) == IF v < 0 THEN -v ELSE v

\* np.int(np.round(L*N/100)): halves go to the even neighbour
RoundHalfEven(n, d) ==
    LET q == n \div d
        r == n % d
    IN  IF 2 * r < d THEN q
        ELSE IF 2 * r > d THEN q + 1
        ELSE IF q % 2 = 0 THEN q ELSE q + 1

ntopOf(L, pct) == RoundHalfEven(L * pct, 100)

\* number of entries of a[0:stop] for an array of length L
SliceLen(L, stop) ==
    LET s == IF stop < 0 THEN stop + L ELSE stop
    IN  IF s < 0 THEN 0 ELSE IF s > L THEN L ELSE s

\* the sign kept: np.argsort(-f_err)
SortKeySigned(v) == -v

\* the minus sign lost: np.argsort(np.abs(f_err))
SortKeyAscending(v) == Abs(v)

\* the sort key of np.argsort(-np.abs(f_err))
SortKey(v) == -Abs(v)

\* The possible first n entries of np.argsort over the indices in rest: the
\* default kind is not a stable sort, so equal keys come in any order.
RECURSIVE ArgsortFrom(_, _, _)
ArgsortFrom(err, rest, n) ==
    IF n = 0 \/ rest = {} THEN {<<>>}
    ELSE UNION {
           {<<m>> \o t : t \in ArgsortFrom(err, rest \ {m}, n - 1)} :
           m \in {j \in rest : \A q \in rest : SortKey(err[j]) <= SortKey(err[q])}}

\* index_f_err[0:ntop-1]
TopIndices(err, pct) ==
    ArgsortFrom(err, DOMAIN err, SliceLen(Len(err), ntopOf(Len(err), pct) - 1))

\* the loop run over range(numIter - 1)
LoopStopsEarly(r, n) == r + 1 < n - 1

\* another round follows round r
LoopContinues(r, n) == r + 1 < n

Select ==
    /\ pc = "select"
    /\ \E idx \in TopIndices(f_err, N) :
         IF Len(idx) = 1
         THEN \* np.squeeze drops the row axis too: np.concatenate raises
              /\ pc' = "error"
              /\ UNCHANGED <<top_pred_X, i>>
         ELSE /\ top_pred_X' = [t \in DOMAIN idx |->
                                  <<pred_X[idx[t]][1], pred_X[idx[t]][2], 0>>]
              /\ i' = i + 1
              /\ pc' = IF LoopContinues(i, numIter) THEN "train" ELSE "done"
    /\ UNCHANGED <<numIter, numIntPtsX, numIntPtsY, N, X_int, pred_X, error_u,
                   f_err, rel_err, rel_est_err, numPts, plate>>

Next == Train \/ Evaluate \/ Estimate \/ Select

Spec == Init /\ [][Next]_vars

(***************************************************************************)
(* Properties of the loop.                                                 *)
(***************************************************************************)
Rounds == 0..(numIter - 1)

\* round r has written its entries of rel_err, rel_est_err and numPts
Recorded(r) == r < i \/ (r = i /\ pc \in {"select", "error"})

\* steps left before the loop is over
StepsLeft ==
    IF pc = "done" THEN 0
    ELSE 4 * (numIter - i) - (CASE pc = "train" -> 0
                                [] pc = "evaluate" -> 1
                                [] pc = "estimate" -> 2
                                [] OTHER -> 3)

EntryWritten(r) ==
    /\ rel_err[r] \in ErrLevels
    /\ rel_est_err[r] # Finite(0, 1)
    /\ numPts[r] >= 1

\* what every step of the loop does to the round count and the records
RoundStep ==
    /\ StepsLeft' < StepsLeft
    /\ pc' # "error"
    /\ \A r \in Rounds :
         (rel_err'[r] # rel_err[r] \/ rel_est_err'[r] # rel_est_err[r]
            \/ numPts'[r] # numPts[r]) => (r = i /\ pc = "estimate")
    /\ (pc' = "done") =>
         (/\ i' = numIter
          /\ DOMAIN rel_err' = Rounds
          /\ DOMAIN rel_est_err' = Rounds
          /\ DOMAIN numPts' = Rounds
          /\ \A r \in Rounds : EntryWritten(r)')

\* C1: the loop ends after exactly numIter rounds, never earlier and never
\* by an error: until it is over a next step exists, every step brings the
\* end nearer, a round writes only its own entry of rel_err, rel_est_err and
\* numPts, and at the end each of the three arrays has numIter entries, all
\* of them written.
C1_ExactlyNumIterRounds ==
    /\ [](pc = "done" \/ ENABLED Next)
    /\ [][RoundStep]_vars

\* C1, reached: the script's three rounds have run to the end.
C1_ThreeRoundsDone == pc = "done" /\ numIter = 3 /\ N = 30 /\ i = 3

\* C2: the number of interior training points recorded for a round is never
\* smaller than the number recorded for the round before.
C2_NumPtsNeverShrinks ==
    \A r \in Rounds : (r >= 1 /\ Recorded(r)) => numPts[r] >= numPts[r - 1]

\* C2, reached: three rounds recorded, the set larger each time.
C2_GrownTwice ==
    /\ Recorded(2)
    /\ numPts[1] > numPts[0]
    /\ numPts[2] > numPts[1]

\* C5: when the target forcing is zero on the residual grid and the predicted
\* residual is zero too, the estimated relative error recorded for the round
\* is 0.
C5_ZeroResidualRecordsZero ==
    (pc = "select" /\ \A j \in DOMAIN f_err : f_err[j] = 0)
        => rel_est_err[i] = Finite(0, 1)

PointOf(row) == <<row[1], row[2]>>

\* the points the model is trained on
TrainingPoints == {PointOf(row) : row \in BagToSet(X_int)}

\* pred_X holds the grid of the error indicator of round i
IndicatorGridReady == pc \in {"estimate", "select"}

SeedCount == (numIntPtsX - 2) * (numIntPtsY - 2)
PromotedCount ==
    LET L == (2 * numIntPtsX - 3) * (2 * numIntPtsY - 3)
    IN  SliceLen(L, ntopOf(L, N) - 1)

\* C8: round 0 trains on the seed set alone; a later round trains on the set
\* of the round before with the rows promoted by that round added; numPts[r]
\* is the size of the set round r trains on, the seed rows plus the rows
\* promoted by rounds 0..r-1; the rows promoted by the last round are in no
\* training set and in no count.
C8_TrainsOnMergedSet ==
    /\ \A r \in Rounds : Recorded(r) => numPts[r] = SeedCount + r * PromotedCount
    /\ (i = 0 /\ pc \in {"evaluate", "estimate", "select"})
          => X_int = RowsToBag(SeedRows(numIntPtsX, numIntPtsY))
    /\ (i >= 1 /\ pc \in {"evaluate", "estimate"})
          => (/\ RowsToBag(top_pred_X) \sqsubseteq X_int
              /\ BagCardinality(X_int) = numPts[i - 1] + Len(top_pred_X))
    /\ (pc = "done")
          => (/\ BagCardinality(X_int) = numPts[numIter - 1]
              /\ BagCardinality(X_int) = SeedCount + (numIter - 1) * PromotedCount)

\* C8, reached: three rounds done, 1 + 2 + 2 rows trained on, the last 2
\* promoted rows left in top_pred_X.
C8_LastPromotedLeftOut ==
    /\ pc = "done"
    /\ numIter = 3
    /\ Len(top_pred_X) = 2
    /\ numPts[2] = 5
    /\ BagCardinality(X_int) = 5

\* the number of times a row occurs in an array of rows
Occurrences(row, rows) == Cardinality({t \in DOMAIN rows : rows[t] = row})

\* the rows promoted at the end of round r and of round r + 1 alike
MergeStep ==
    pc = "train" =>
        /\ BagCardinality(X_int') = BagCardinality(X_int) + Len(top_pred_X)
        /\ \A row \in BagToSet(X_int) \cup Range(top_pred_X) :
              CopiesIn(row, X_int') =
                  CopiesIn(row, X_int) + Occurrences(row, top_pred_X)

\* C11: the merge never de-duplicates: every promoted row is appended to
\* X_int whether or not X_int already holds an equal row, so a row promoted
\* by two successive rounds, or a promoted row equal to a seed row, occurs
\* in X_int once more for every time it was promoted.
C11_NoDeduplication == [][MergeStep]_vars

\* C11, reached: in round 2 the seed point, promoted once, is in X_int
\* twice, and a point off the seed grid, promoted by rounds 0 and 1, is in
\* X_int twice too.
C11_PointsKeptTwice ==
    /\ pc = "evaluate"
    /\ i = 2
    /\ \E seed \in Range(SeedRows(numIntPtsX, numIntPtsY)) :
          CopiesIn(seed, X_int) = 2
    /\ \E row \in BagToSet(X_int) \ Range(SeedRows(numIntPtsX, numIntPtsY)) :
          /\ CopiesIn(row, X_int) = 2
          /\ row \in Range(top_pred_X)

(***************************************************************************)
(* The grids on their own: the set-up and the first round up to the        *)
(* generation of the residual grid, for the script's counts 101 x 51 and   *)
(* for small counts.                                                       *)
(***************************************************************************)
\* numIntPtsX, numIntPtsY of the script
seedPtsX == 101
seedPtsY == 51

GridConfigs == ((2..MaxGridPts) \cup {seedPtsX}) \X ((2..MaxGridPts) \cup {seedPtsY})

InitGrid == Setup(GridConfigs, {Percent}, 1..MaxIter)

NextGrid == Train \/ Evaluate

SpecGrid == InitGrid /\ [][NextGrid]_vars

\* the script's seed counts, in round 0, with the residual grid generated
ScriptGridsReady ==
    /\ numIntPtsX = seedPtsX
    /\ numIntPtsY = seedPtsY
    /\ i = 0
    /\ pc = "estimate"

InitSel ==
    /\ numIter = 1
    /\ numIntPtsX = 0
    /\ numIntPtsY = 0
    /\ N \in SelPercents
    /\ i = 0
    /\ pc = "select"
    /\ X_int = EmptyBag
    /\ top_pred_X = <<>>
    /\ \E L \in 0..MaxLen :
         /\ pred_X = getUnifIntPts(L + 2, 3, <<0, 0, 0, 0>>)
         /\ f_err \in [1..L -> SelResVals]
    /\ error_u = 0
    /\ rel_err = zeros(numIter)
    /\ rel_est_err = [r \in DOMAIN zeros(numIter) |-> Finite(0, 1)]
    /\ numPts = zeros(numIter)
    /\ plate = NoPlate

NextSel == Select

SpecSel == InitSel /\ [][NextSel]_vars

\* the selection step has produced top_pred_X
Selected == pc = "done"

IndexOf(pt) == CHOOSE j \in DOMAIN pred_X : pred_X[j] = pt

\* indices in pred_X of the promoted points, and of the others
PromotedIdx == {IndexOf(PointOf(row)) : row \in Range(top_pred_X)}
LeftIdx == DOMAIN pred_X \ PromotedIdx

PromotedPoints == {PointOf(row) : row \in Range(top_pred_X)}

\* C3 as claimed: for a residual array of length L and the percentage N the
\* promoted set has exactly floor(L*N/100) entries.
C3_PromotesFloorCount ==
    Selected => Len(top_pred_X) = (Len(f_err) * N) \div 100

\* C10 as claimed: the number of promoted points is at most the budget
\* round(L*N/100), and nothing is promoted when the budget is zero.
C10_WithinBudget ==
    Selected =>
        /\ Len(top_pred_X) <= ntopOf(Len(f_err), N)
        /\ (ntopOf(Len(f_err), N) = 0 => top_pred_X = <<>>)

\* every promoted point has at least the absolute residual of every other
LargestPromoted ==
    \A p \in PromotedIdx : \A q \in LeftIdx : Abs(f_err[p]) >= Abs(f_err[q])

\* the orders the same points and residuals can be handed over in
Perms(L) == {f \in [1..L -> 1..L] : Range(f) = 1..L}

\* the sets of points the selection can promote for the input order perm
PromotedUnder(perm) ==
    LET errP == [t \in DOMAIN f_err |-> f_err[perm[t]]]
    IN  {{pred_X[perm[idx[t]]] : t \in DOMAIN idx} : idx \in TopIndices(errP, N)}

SameForEveryOrder ==
    \A perm \in Perms(Len(f_err)) : PromotedUnder(perm) = {PromotedPoints}

\* no point left behind has the absolute residual of a promoted point
NoTieAcrossCut ==
    \A p \in PromotedIdx : \A q \in LeftIdx : Abs(f_err[p]) # Abs(f_err[q])

\* C4 as claimed: the promoted points have the largest absolute residuals,
\* and the promoted set is the same for every order of the input.
C4_LargestAndOrderFree ==
    Selected => (LargestPromoted /\ SameForEveryOrder)

\* C4 as amended: the promoted points have the largest absolute residuals;
\* the promoted set is the same for every order of the input when no point
\* left behind has the same absolute residual as a promoted point.
C4_LargestAndOrderFreeWithoutTies ==
    Selected => (LargestPromoted /\ (NoTieAcrossCut => SameForEveryOrder))

\* C4, reached: a point with residual -2 promoted over one with residual 1,
\* no tie across the cut.
C4_NegativeBeatsSmallerPositive ==
    /\ Selected
    /\ NoTieAcrossCut
    /\ \E p \in PromotedIdx : \E q \in LeftIdx : f_err[p] = -2 /\ f_err[q] = 1

\* C9 as claimed: of points with equal absolute residual the ones with the
\* lower index in the grid are promoted first.
C9_TiesByArrayOrder ==
    Selected =>
        \A p \in PromotedIdx : \A q \in LeftIdx :
            Abs(f_err[p]) = Abs(f_err[q]) => p < q

\* C9 as amended: the rows of top_pred_X come in the order of falling
\* absolute residual; every point whose absolute residual is above that of
\* the last promoted row is promoted and no point below it is; which of the
\* points that tie with the last promoted row are promoted is not fixed by
\* their index.
C9_OnlyMagnitudeDecides ==
    (Selected /\ top_pred_X # <<>>) =>
        LET res(t) == Abs(f_err[IndexOf(PointOf(top_pred_X[t]))])
            cut == res(Len(top_pred_X))
        IN  /\ \A t \in 1..(Len(top_pred_X) - 1) : res(t) >= res(t + 1)
            /\ \A j \in DOMAIN f_err : Abs(f_err[j]) > cut => j \in PromotedIdx
            /\ \A j \in DOMAIN f_err : Abs(f_err[j]) < cut => j \in LeftIdx

\* C9, reached: of two points with equal absolute residual the one with the
\* higher index is promoted and the other is not.
C9_LaterTiedPointPromoted ==
    /\ Selected
    /\ \E p \in PromotedIdx : \E q \in LeftIdx :
         Abs(f_err[p]) = Abs(f_err[q]) /\ q < p

(***************************************************************************)
(* The plate-with-hole script: the stress errors at the test points and    *)
(* the relative energy error computed from them (lines 277..294).          *)
(***************************************************************************)
\* largest number of test points
MaxPlatePts == 2

\* values of a stress component at a test point, exact or computed
StressVals == {0, 1}

\* C_inv, the inverse of the model's elasticity matrix, up to a common
\* factor that cancels in the ratio: the identity, and the plane-stress
\* compliance for nu = 0.3 times 10 E
CInvs == { << <<1, 0, 0>>, <<0, 1, 0>>, <<0, 0, 1>> >>,
           << <<10, -3, 0>>, <<-3, 10, 0>>, <<0, 0, 26>> >> }

\* a @ b of two vectors of three components
Dot(a, b) == a[1] * b[1] + a[2] * b[2] + a[3] * b[3]

\* v @ C of a vector and a 3 x 3 matrix
VecMat(v, C) == [b \in 1..3 |-> v[1] * C[1][b] + v[2] * C[2][b] + v[3] * C[3][b]]

\* v @ C @ v.T
Quad(v, C) == Dot(VecMat(v, C), v)

\* State after line 278: the computed and the exact stresses at the test
\* points, nothing of the energy error computed yet.
InitPlate ==
    /\ numIter = 0
    /\ numIntPtsX = 0
    /\ numIntPtsY = 0
    /\ N = Percent
    /\ i = 0
    /\ pc = "done"
    /\ X_int = EmptyBag
    /\ top_pred_X = <<>>
    /\ pred_X = <<>>
    /\ error_u = 0
    /\ f_err = <<>>
    /\ rel_err = <<>>
    /\ rel_est_err = <<>>
    /\ numPts = <<>>
    /\ \E n \in 1..MaxPlatePts :
       \E xxe \in [1..n -> StressVals], yye \in [1..n -> StressVals],
          xye \in [1..n -> StressVals], xxc \in [1..n -> StressVals],
          yyc \in [1..n -> StressVals], xyc \in [1..n -> StressVals],
          Cinv \in CInvs :
         plate = [pc |-> "errors",
                  stress_xx_exact |-> xxe, stress_yy_exact |-> yye,
                  stress_xy_exact |-> xye,
                  stress_xx_comp |-> xxc, stress_yy_comp |-> yyc,
                  stress_xy_comp |-> xyc,
                  stress_xx_err |-> <<>>, stress_yy_err |-> <<>>,
                  stress_xy_err |-> <<>>,
                  C_inv |-> Cinv, energy_err |-> 0, energy_norm |-> 0,
                  numPts |-> 0, i |-> 0,
                  rel_energy_sq |-> Finite(0, 1)]

\* a - b of two arrays of one length
Minus(a, b) == [k \in DOMAIN a |-> a[k] - b[k]]

\* Lines 280..287: the three arrays of stress errors, then the start of the
\* accumulation.
StressErrors ==
    /\ plate.pc = "errors"
    /\ plate' = [plate EXCEPT
          !.stress_xx_err = Minus(plate.stress_xx_exact, plate.stress_xx_comp),
          !.stress_yy_err = Minus(plate.stress_yy_exact, plate.stress_yy_comp),
          !.stress_xy_err = Minus(plate.stress_xx_exact, plate.stress_xx_comp),
          !.energy_err = 0,
          !.energy_norm = 0,
          !.numPts = Len(plate.stress_xx_exact),
          !.i = 0,
          !.pc = "loop"]
    /\ UNCHANGED <<numIter, numIntPtsX, numIntPtsY, N, i, pc, X_int,
                   top_pred_X, pred_X, error_u, f_err, rel_err, rel_est_err,
                   numPts>>

\* Lines 288..292: one pass of the loop over the test points (the arrays
\* are indexed from 1 here, from 0 in the script).
EnergyStep ==
    /\ plate.pc = "loop"
    /\ plate.i < plate.numPts
    /\ LET k == plate.i + 1
           err_pt == <<plate.stress_xx_err[k], plate.stress_yy_err[k],
                       plate.stress_xy_err[k]>>
           norm_pt == <<plate.stress_xx_exact[k], plate.stress_yy_exact[k],
                        plate.stress_xy_exact[k]>>
       IN  plate' = [plate EXCEPT
              !.energy_err = plate.energy_err + Quad(err_pt, plate.C_inv),
              !.energy_norm = plate.energy_norm + Quad(norm_pt, plate.C_inv),
              !.i = plate.i + 1]
    /\ UNCHANGED <<numIter, numIntPtsX, numIntPtsY, N, i, pc, X_int,
                   top_pred_X, pred_X, error_u, f_err, rel_err, rel_est_err,
                   numPts>>

\* Line 294: the printed number is the square root of energy_err/energy_norm;
\* rel_energy_sq is its square.
PrintEnergy ==
    /\ plate.pc = "loop"
    /\ plate.i = plate.numPts
    /\ plate' = [plate EXCEPT
          !.rel_energy_sq = FloatDiv(plate.energy_err, plate.energy_norm),
          !.pc = "done"]
    /\ UNCHANGED <<numIter, numIntPtsX, numIntPtsY, N, i, pc, X_int,
                   top_pred_X, pred_X, error_u, f_err, rel_err, rel_est_err,
                   numPts>>

NextPlate == StressErrors \/ EnergyStep \/ PrintEnergy

SpecPlate == InitPlate /\ [][NextPlate]_vars

\* the error of a component at test point k: exact minus computed stress of
\* that component
ErrXX(k) == plate.stress_xx_exact[k] - plate.stress_xx_comp[k]
ErrYY(k) == plate.stress_yy_exact[k] - plate.stress_yy_comp[k]
ErrXY(k) == plate.stress_xy_exact[k] - plate.stress_xy_comp[k]

RECURSIVE EnergyOfErrors(_)
\* the energy of the per-component errors at the first n test points
EnergyOfErrors(n) ==
    IF n = 0 THEN 0
    ELSE EnergyOfErrors(n - 1) + Quad(<<ErrXX(n), ErrYY(n), ErrXY(n)>>, plate.C_inv)

\* C12: each stress error array holds the exact stress of its component
\* minus the computed stress of the same component (the xy error comes from
\* the xy stresses), and the energy error accumulated over the test points
\* is the energy of these per-component errors.
C12_ErrorOfSameComponent ==
    plate.pc \in {"loop", "done"} =>
        /\ \A k \in 1..plate.numPts :
             /\ plate.stress_xx_err[k] = ErrXX(k)
             /\ plate.stress_yy_err[k] = ErrYY(k)
             /\ plate.stress_xy_err[k] = ErrXY(k)
        /\ plate.energy_err = EnergyOfErrors(plate.i)

====
